---- MODULE Spec2Model ----
(***************************************************************************)
(* Model of the two programs of the repository:                            *)
(*   - the batch sweep       (src/unnamed/part_000), variant = "batch"     *)
(*   - the Tkinter front end (src/smart_signal_gui.py), variant = "gui"    *)
(* Both talk to one VISA instrument and append to the same CSV log store.  *)
(*                                                                         *)
(* Units: frequencies are in Hz.  Batch amplitudes are the integers of the *)
(* source (Vpp).  The interactive amplitude is a float in the source; here *)
(* it is counted in tenths of a volt, so amp_min = 0.1 Vpp is 1 and        *)
(* amp_max = 10 Vpp is 100.                                                *)
(* Text read from the instrument is a tuple of characters.                 *)
(***************************************************************************)
EXTENDS Integers, Sequences, FiniteSets, TLC

VARIABLES
    variant,        \* which program runs: "batch" or "gui"
    sweep,          \* batch: the configured start_freq, stop_freq and step_freq
    devices,        \* what rm.list_resources() returns
    pc,             \* position of the main thread
    session,        \* "closed" or "open": inst = rm.open_resource(devices[0])
    events,         \* everything done to the instrument, the settle delay and the log appends, in order
    clock,          \* wall clock, advanced by time.sleep
    log_exists,     \* whether the file log_file exists
    log_rows,       \* the rows of log_file
    store0,         \* the log store as it was when the program started
    wi, fi, ai,     \* batch: positions of the three nested for loops
    voltage,        \* batch: the loop body's variable voltage
    start_button,   \* gui: state of self.start_button ("unbuilt" before __init__)
    output_label,   \* gui: voltage shown by self.output_label
    messagebox,     \* gui: title of the last messagebox.showerror
    last_waveform, last_freq, last_amp,   \* gui: self.last_*
    plot,           \* gui: plot_waveform's variables f, a (as read from last_amp) and waveform
    workers         \* gui: the threads started by start_test, in order of start

vars == <<variant, sweep, devices, pc, session, events, clock, log_exists, log_rows, store0,
          wi, fi, ai, voltage, start_button, output_label, messagebox,
          last_waveform, last_freq, last_amp, plot, workers>>

batch_vars == <<wi, fi, ai, voltage>>
gui_vars == <<start_button, output_label, messagebox, last_waveform, last_freq, last_amp,
              plot, workers>>
log_vars == <<log_exists, log_rows>>

----------------------------------------------------------------------------
(* Bounds of the model *)

\* batch: how many measurement queries of one sweep may fail
MaxQueryFaults == 1
\* gui: how many trials the user may start
MaxTrials == 2

----------------------------------------------------------------------------
(* Configurable parameters *)

waveform_types == <<"SIN", "SQU", "TRI">>
start_freq == 1000
stop_freq == 5000
step_freq == 1000
amplitudes == <<1, 2, 3>>
delay_time == 1
freq_min == 10
freq_max == 1000000
amp_min == 1
amp_max == 100

\* the header row both programs write
Header == [header |-> <<"Timestamp", "Waveform", "Frequency (Hz)", "Amplitude (Vpp)",
                        "Measured Voltage (V)">>]

\* voltage = "N/A"
NA == <<"N", "/", "A">>

\* what the instrument answers to MEAS:VOLT:DC? when it answers
Replies == { <<"+", "5", "\n">> }

Whitespace == {" ", "\n", "\r", "\t"}

\* str.strip(): leading and trailing whitespace removed
RECURSIVE LStrip(_)
LStrip(s) == IF s # <<>> /\ Head(s) \in Whitespace THEN LStrip(Tail(s)) ELSE s

RECURSIVE RStrip(_)
RStrip(s) == IF s # <<>> /\ s[Len(s)] \in Whitespace THEN RStrip(SubSeq(s, 1, Len(s) - 1)) ELSE s

Strip(s) == RStrip(LStrip(s))

\* Python's range(start, stop, step) for step > 0
RECURSIVE PyRange(_, _, _)
PyRange(start, stop, step) ==
    IF start >= stop THEN <<>> ELSE <<start>> \o PyRange(start + step, stop, step)

\* freqs with the stop of the range left at stop_freq
freqs_stop_excluded == PyRange(sweep.start, sweep.stop, sweep.step)

\* range(start_freq, stop_freq + step_freq, step_freq)
freqs == PyRange(sweep.start, sweep.stop + sweep.step, sweep.step)

\* one row of a trial: writer.writerow([timestamp, waveform, freq, amp, voltage])
Row(ts, w, f, a, v) ==
    [timestamp |-> ts, waveform |-> w, freq |-> f, amp |-> a, voltage |-> v]

IsHeader(r) == DOMAIN r = {"header"}
IsData(r) == ~IsHeader(r)

----------------------------------------------------------------------------
(* The log store as the program may find it *)

\* a row left by an earlier run
PriorRow == Row(0, "SIN", 1000, 1, <<"+", "5">>)

\* plot_waveform is not running: f, a and waveform are unbound
NoPlot == [f |-> 0, a |-> 0, waveform |-> ""]

InitialStores ==
    { [exists |-> FALSE, rows |-> <<>>],
      [exists |-> TRUE, rows |-> <<>>],
      [exists |-> TRUE, rows |-> <<Header, PriorRow>>] }

\* the parameters as the source sets them
Configured == [start |-> start_freq, stop |-> stop_freq, step |-> step_freq]

Init ==
    /\ variant \in {"batch", "gui"}
    /\ sweep = Configured
    /\ devices \in { <<>>, <<"USB0::0x0957::0x2C07::MY52814912::INSTR">> }
    /\ pc = "list"
    /\ session = "closed"
    /\ events = <<>>
    /\ clock = 0
    /\ store0 \in InitialStores
    /\ log_exists = store0.exists
    /\ log_rows = store0.rows
    /\ wi = 1 /\ fi = 1 /\ ai = 1
    /\ voltage = <<>>
    /\ start_button = "unbuilt"
    /\ output_label = <<>>
    /\ messagebox = ""
    /\ last_waveform = ""
    /\ last_freq = 0
    /\ last_amp = 0
    /\ plot = NoPlot
    /\ workers = <<>>

----------------------------------------------------------------------------
(* Start-up, common to both programs *)

\* list_resources without the test of devices
list_resources_unchecked ==
    /\ pc = "list"
    /\ pc' = "open"
    /\ UNCHANGED <<variant, sweep, devices, session, events, clock, log_vars, store0, batch_vars, gui_vars>>

\* devices = rm.list_resources(); if not devices: exit() / raise RuntimeError
list_resources ==
    /\ pc = "list"
    /\ pc' = IF devices = <<>> THEN (IF variant = "batch" THEN "exit" ELSE "fatal")
             ELSE "open"
    /\ UNCHANGED <<variant, sweep, devices, session, events, clock, log_vars, store0, batch_vars, gui_vars>>

\* inst = rm.open_resource(devices[0])
open_resource ==
    /\ pc = "open"
    /\ session' = "open"
    /\ pc' = "idn"
    /\ UNCHANGED <<variant, sweep, devices, events, clock, log_vars, store0, batch_vars, gui_vars>>

\* idn = inst.query("*IDN?")
query_idn ==
    /\ pc = "idn"
    /\ events' = Append(events, [cmd |-> "*IDN?", ok |-> TRUE])
    /\ pc' = "logsetup"
    /\ UNCHANGED <<variant, sweep, devices, session, clock, log_vars, store0, batch_vars, gui_vars>>

----------------------------------------------------------------------------
(* Batch program *)

\* open(log_file, "a"); seek(0, 2); if tell() == 0: writerow(header)
csv_logging_setup ==
    /\ variant = "batch"
    /\ pc = "logsetup"
    /\ log_exists' = TRUE
    /\ log_rows' = IF log_rows = <<>> THEN <<Header>> ELSE log_rows
    /\ pc' = "func"
    /\ UNCHANGED <<variant, sweep, devices, session, events, clock, store0, batch_vars, gui_vars>>

\* the loop variables of the current iteration
waveform == waveform_types[wi]
freq == freqs[fi]
amp == amplitudes[ai]

QueryFaults == Cardinality({i \in 1..Len(events) :
                               events[i].cmd = "MEAS:VOLT:DC?" /\ ~events[i].ok})

\* a write or a log append raised: nothing catches it, the program ends
BatchRaise(ev) ==
    /\ events' = Append(events, ev)
    /\ pc' = "halted"
    /\ UNCHANGED <<variant, sweep, devices, session, clock, log_vars, store0, batch_vars, gui_vars>>

BatchWrite(at, ev, to) ==
    /\ variant = "batch"
    /\ pc = at
    /\ \/ /\ events' = Append(events, [ev EXCEPT !.ok = TRUE])
          /\ pc' = to
          /\ UNCHANGED <<variant, sweep, devices, session, clock, log_vars, store0, batch_vars, gui_vars>>
       \/ BatchRaise([ev EXCEPT !.ok = FALSE])

\* inst.write(f"FUNC {waveform}")
batch_write_func == BatchWrite("func", [cmd |-> "FUNC", shape |-> waveform, ok |-> TRUE], "freq")

\* inst.write(f"FREQ {freq}")
batch_write_freq == BatchWrite("freq", [cmd |-> "FREQ", hz |-> freq, ok |-> TRUE], "volt")

\* batch_write_volt without the time.sleep(delay_time) after it
batch_write_volt_no_settle ==
    BatchWrite("volt", [cmd |-> "VOLT", vpp |-> amp, ok |-> TRUE], "query")

\* inst.write(f"VOLT {amp}")
batch_write_volt == BatchWrite("volt", [cmd |-> "VOLT", vpp |-> amp, ok |-> TRUE], "sleep")

\* time.sleep(delay_time)
batch_sleep ==
    /\ variant = "batch"
    /\ pc = "sleep"
    /\ clock' = clock + delay_time
    /\ events' = Append(events, [cmd |-> "sleep"])
    /\ pc' = "query"
    /\ UNCHANGED <<variant, sweep, devices, session, log_vars, store0, batch_vars, gui_vars>>

\* batch_query without the try/except: a failed query ends the program
batch_query_uncaught ==
    /\ variant = "batch"
    /\ pc = "query"
    /\ \/ \E reply \in Replies :
            /\ voltage' = Strip(reply)
            /\ events' = Append(events, [cmd |-> "MEAS:VOLT:DC?", ok |-> TRUE])
            /\ pc' = "log"
            /\ UNCHANGED <<variant, sweep, devices, session, clock, log_vars, store0, wi, fi, ai, gui_vars>>
       \/ /\ QueryFaults < MaxQueryFaults
          /\ BatchRaise([cmd |-> "MEAS:VOLT:DC?", ok |-> FALSE])

\* try: voltage = inst.query("MEAS:VOLT:DC?").strip()  except: voltage = "N/A"
batch_query ==
    /\ variant = "batch"
    /\ pc = "query"
    /\ \/ \E reply \in Replies :
            /\ voltage' = Strip(reply)
            /\ events' = Append(events, [cmd |-> "MEAS:VOLT:DC?", ok |-> TRUE])
       \/ /\ QueryFaults < MaxQueryFaults
          /\ voltage' = NA
          /\ events' = Append(events, [cmd |-> "MEAS:VOLT:DC?", ok |-> FALSE])
    /\ pc' = "log"
    /\ UNCHANGED <<variant, sweep, devices, session, clock, log_vars, store0, wi, fi, ai, gui_vars>>

\* LoopNext with the for statements nested in another order: frequency outermost
LoopNext_freq_outermost ==
    IF ai < Len(amplitudes) THEN [wi |-> wi, fi |-> fi, ai |-> ai + 1, pc |-> "func"]
    ELSE IF wi < Len(waveform_types) THEN [wi |-> wi + 1, fi |-> fi, ai |-> 1, pc |-> "func"]
    ELSE IF fi < Len(freqs) THEN [wi |-> 1, fi |-> fi + 1, ai |-> 1, pc |-> "func"]
    ELSE [wi |-> wi, fi |-> fi, ai |-> ai, pc |-> "plot"]

\* the three for statements: the next (waveform, freq, amp), or the end of the sweep
LoopNext ==
    IF ai < Len(amplitudes) THEN [wi |-> wi, fi |-> fi, ai |-> ai + 1, pc |-> "func"]
    ELSE IF fi < Len(freqs) THEN [wi |-> wi, fi |-> fi + 1, ai |-> 1, pc |-> "func"]
    ELSE IF wi < Len(waveform_types) THEN [wi |-> wi + 1, fi |-> 1, ai |-> 1, pc |-> "func"]
    ELSE [wi |-> wi, fi |-> fi, ai |-> ai, pc |-> "plot"]

\* with open(log_file, "a"): writer.writerow([datetime.now(), waveform, freq, amp, voltage])
batch_log ==
    /\ variant = "batch"
    /\ pc = "log"
    /\ \/ /\ log_exists' = TRUE
          /\ log_rows' = Append(log_rows, Row(clock, waveform, freq, amp, voltage))
          /\ events' = Append(events, [cmd |-> "append", ok |-> TRUE])
          /\ wi' = LoopNext.wi /\ fi' = LoopNext.fi /\ ai' = LoopNext.ai
          /\ pc' = LoopNext.pc
          /\ UNCHANGED <<variant, sweep, devices, session, clock, store0, voltage, gui_vars>>
       \/ BatchRaise([cmd |-> "append", ok |-> FALSE])

\* the final plot of the loop variables' last values
batch_plot ==
    /\ variant = "batch"
    /\ pc = "plot"
    /\ pc' = "done"
    /\ UNCHANGED <<variant, sweep, devices, session, events, clock, log_vars, store0, batch_vars, gui_vars>>

BatchNext ==
    \/ csv_logging_setup
    \/ batch_write_func
    \/ batch_write_freq
    \/ batch_write_volt
    \/ batch_sleep
    \/ batch_query
    \/ batch_log
    \/ batch_plot

----------------------------------------------------------------------------
(* Interactive program *)

\* init_log that opens log_file with mode "w" whether or not it exists
init_log_truncating ==
    /\ variant = "gui"
    /\ pc = "logsetup"
    /\ log_exists' = TRUE
    /\ log_rows' = <<Header>>
    /\ pc' = "app"
    /\ UNCHANGED <<variant, sweep, devices, session, events, clock, store0, batch_vars, gui_vars>>

\* init_log(): the header is written only when opening the file for reading
\* raises FileNotFoundError
init_log ==
    /\ variant = "gui"
    /\ pc = "logsetup"
    /\ IF log_exists
         THEN UNCHANGED log_vars
         ELSE /\ log_exists' = TRUE
              /\ log_rows' = <<Header>>
    /\ pc' = "app"
    /\ UNCHANGED <<variant, sweep, devices, session, events, clock, store0, batch_vars, gui_vars>>

\* app = SignalTestApp(); app.mainloop()
SignalTestApp_init ==
    /\ variant = "gui"
    /\ pc = "app"
    /\ start_button' = "normal"
    /\ output_label' = <<>>
    /\ last_waveform' = waveform_types[1]
    /\ last_freq' = 1000
    /\ last_amp' = 10
    /\ pc' = "mainloop"
    /\ UNCHANGED <<variant, sweep, devices, session, events, clock, log_vars, store0, batch_vars, plot,
                   messagebox, workers>>

\* what an entry holds when the button is pressed: text that is no number
\* (get() raises tk.TclError), or a number
NotANumber == [numeric |-> FALSE, value |-> 0]
Number(v) == [numeric |-> TRUE, value |-> v]

\* the form as the user may have filled it: the waveform chosen in the read-only
\* combobox, the frequency entry and the amplitude entry
Form(w, fe, ae) == [waveform |-> w, freq |-> fe, amp |-> ae]

Forms ==
    { Form("SIN", Number(10), Number(1)),
      Form("SQU", Number(1000000), Number(100)),
      Form("TRI", Number(1000), Number(10)),
      Form("SIN", NotANumber, Number(10)),
      Form("SQU", Number(1000), NotANumber),
      Form("SIN", Number(5), Number(10)),
      Form("SQU", Number(9), Number(10)),
      Form("TRI", Number(1000001), Number(10)),
      Form("SIN", Number(1000), Number(0)),
      Form("TRI", Number(1000), Number(101)),
      Form("SQU", Number(5), Number(101)) }

\* validate_inputs with "and" for "or" in the range tests
validate_inputs_and(fe, ae) ==
    IF ~fe.numeric \/ ~ae.numeric THEN "Invalid Input"
    ELSE IF fe.value < freq_min /\ fe.value > freq_max THEN "Frequency Out of Range"
    ELSE IF ae.value < amp_min /\ ae.value > amp_max THEN "Amplitude Out of Range"
    ELSE ""

\* validate_inputs(): the title of the error box it shows, "" when it returns True
validate_inputs(fe, ae) ==
    IF ~fe.numeric \/ ~ae.numeric THEN "Invalid Input"
    ELSE IF fe.value < freq_min \/ fe.value > freq_max THEN "Frequency Out of Range"
    ELSE IF ae.value < amp_min \/ ae.value > amp_max THEN "Amplitude Out of Range"
    ELSE ""

\* a thread at the first statement of run_test(waveform, freq, amp)
NewWorker(w, f, a) == [pc |-> "func", waveform |-> w, freq |-> f, amp |-> a, voltage |-> <<>>]

\* start_test without self.start_button.config(state="disabled")
start_test_body_no_disable(w, fe, ae) ==
    IF validate_inputs(fe, ae) # ""
      THEN /\ messagebox' = validate_inputs(fe, ae)
           /\ pc' = "messagebox"
           /\ UNCHANGED <<start_button, workers>>
      ELSE /\ workers' = Append(workers, NewWorker(w, fe.value, ae.value))
           /\ UNCHANGED <<start_button, messagebox, pc>>

\* start_test() with the button enabled: not validated, the error box is shown and
\* it returns; validated, the button is disabled and the thread started
start_test_body(w, fe, ae) ==
    IF validate_inputs(fe, ae) # ""
      THEN /\ messagebox' = validate_inputs(fe, ae)
           /\ pc' = "messagebox"
           /\ UNCHANGED <<start_button, workers>>
      ELSE /\ start_button' = "disabled"
           /\ workers' = Append(workers, NewWorker(w, fe.value, ae.value))
           /\ UNCHANGED <<messagebox, pc>>

\* the user presses Start Test; a disabled ttk button does not call its command
start_test(w, fe, ae) ==
    /\ variant = "gui"
    /\ pc = "mainloop"
    /\ start_button = "normal"
    /\ Len(workers) < MaxTrials
    /\ start_test_body(w, fe, ae)
    /\ UNCHANGED <<variant, sweep, devices, session, events, clock, log_vars, store0, batch_vars, plot,
                   output_label, last_waveform, last_freq, last_amp>>

\* the user closes the error box: showerror returns, and so does start_test
dismiss_messagebox ==
    /\ pc = "messagebox"
    /\ messagebox' = ""
    /\ pc' = "mainloop"
    /\ UNCHANGED <<variant, sweep, devices, session, events, clock, log_vars, store0, batch_vars, plot,
                   start_button, output_label, last_waveform, last_freq, last_amp, workers>>

\* WorkerWrite with each write guarded on its own: a failed write is passed over
WorkerWrite_passed_over(i, at, ev, to) ==
    /\ workers[i].pc = at
    /\ \/ /\ events' = Append(events, [ev EXCEPT !.ok = TRUE])
          /\ workers' = [workers EXCEPT ![i].pc = to]
       \/ /\ events' = Append(events, [ev EXCEPT !.ok = FALSE])
          /\ workers' = [workers EXCEPT ![i].pc = to]
    /\ UNCHANGED <<variant, sweep, devices, pc, session, clock, log_vars, store0, batch_vars, plot,
                   start_button, output_label, messagebox, last_waveform, last_freq, last_amp>>

\* run_test: one of the three writes inside the try; a failure is caught by
\* except Exception: voltage = "N/A", and run_test goes on to the log
WorkerWrite(i, at, ev, to) ==
    /\ workers[i].pc = at
    /\ \/ /\ events' = Append(events, [ev EXCEPT !.ok = TRUE])
          /\ workers' = [workers EXCEPT ![i].pc = to]
       \/ /\ events' = Append(events, [ev EXCEPT !.ok = FALSE])
          /\ workers' = [workers EXCEPT ![i].pc = "log", ![i].voltage = NA]
    /\ UNCHANGED <<variant, sweep, devices, pc, session, clock, log_vars, store0, batch_vars, plot,
                   start_button, output_label, messagebox, last_waveform, last_freq, last_amp>>

\* inst.write(f"FUNC {waveform}")
run_test_func(i) ==
    WorkerWrite(i, "func", [cmd |-> "FUNC", shape |-> workers[i].waveform, ok |-> TRUE], "freq")

\* inst.write(f"FREQ {freq}")
run_test_freq(i) ==
    WorkerWrite(i, "freq", [cmd |-> "FREQ", hz |-> workers[i].freq, ok |-> TRUE], "volt")

\* inst.write(f"VOLT {amp}")
run_test_volt(i) ==
    WorkerWrite(i, "volt", [cmd |-> "VOLT", vpp |-> workers[i].amp, ok |-> TRUE], "sleep")

\* time.sleep(delay_time)
run_test_sleep(i) ==
    /\ workers[i].pc = "sleep"
    /\ clock' = clock + delay_time
    /\ events' = Append(events, [cmd |-> "sleep"])
    /\ workers' = [workers EXCEPT ![i].pc = "query"]
    /\ UNCHANGED <<variant, sweep, devices, pc, session, log_vars, store0, batch_vars, plot,
                   start_button, output_label, messagebox, last_waveform, last_freq, last_amp>>

\* voltage = inst.query("MEAS:VOLT:DC?").strip()  except Exception: voltage = "N/A"
run_test_query(i) ==
    /\ workers[i].pc = "query"
    /\ \/ \E reply \in Replies :
            /\ events' = Append(events, [cmd |-> "MEAS:VOLT:DC?", ok |-> TRUE])
            /\ workers' = [workers EXCEPT ![i].pc = "log", ![i].voltage = Strip(reply)]
       \/ /\ events' = Append(events, [cmd |-> "MEAS:VOLT:DC?", ok |-> FALSE])
          /\ workers' = [workers EXCEPT ![i].pc = "log", ![i].voltage = NA]
    /\ UNCHANGED <<variant, sweep, devices, pc, session, clock, log_vars, store0, batch_vars, plot,
                   start_button, output_label, messagebox, last_waveform, last_freq, last_amp>>

\* run_test_log with the append inside the try: no row when a write or the query failed
run_test_log_in_try(i) ==
    /\ workers[i].pc = "log"
    /\ \/ /\ workers[i].voltage # NA
          /\ log_exists' = TRUE
          /\ log_rows' = Append(log_rows, Row(clock, workers[i].waveform, workers[i].freq,
                                              workers[i].amp, workers[i].voltage))
          /\ events' = Append(events, [cmd |-> "append", ok |-> TRUE])
          /\ workers' = [workers EXCEPT ![i].pc = "last_waveform"]
       \/ /\ workers[i].voltage = NA
          /\ workers' = [workers EXCEPT ![i].pc = "last_waveform"]
          /\ UNCHANGED <<log_exists, log_rows, events>>
       \/ /\ events' = Append(events, [cmd |-> "append", ok |-> FALSE])
          /\ workers' = [workers EXCEPT ![i].pc = "dead"]
          /\ UNCHANGED log_vars
    /\ UNCHANGED <<variant, sweep, devices, pc, session, clock, store0, batch_vars, plot,
                   start_button, output_label, messagebox, last_waveform, last_freq, last_amp>>

\* with open(log_file, "a"): writer.writerow([timestamp, waveform, freq, amp, voltage]);
\* outside the try: when it raises, the exception ends the thread
run_test_log(i) ==
    /\ workers[i].pc = "log"
    /\ \/ /\ log_exists' = TRUE
          /\ log_rows' = Append(log_rows, Row(clock, workers[i].waveform, workers[i].freq,
                                              workers[i].amp, workers[i].voltage))
          /\ events' = Append(events, [cmd |-> "append", ok |-> TRUE])
          /\ workers' = [workers EXCEPT ![i].pc = "last_waveform"]
       \/ /\ events' = Append(events, [cmd |-> "append", ok |-> FALSE])
          /\ workers' = [workers EXCEPT ![i].pc = "dead"]
          /\ UNCHANGED log_vars
    /\ UNCHANGED <<variant, sweep, devices, pc, session, clock, store0, batch_vars, plot,
                   start_button, output_label, messagebox, last_waveform, last_freq, last_amp>>

\* self.last_waveform = waveform
test_thread_last_waveform(i) ==
    /\ workers[i].pc = "last_waveform"
    /\ last_waveform' = workers[i].waveform
    /\ workers' = [workers EXCEPT ![i].pc = "last_freq"]
    /\ UNCHANGED <<variant, sweep, devices, pc, session, events, clock, log_vars, store0, batch_vars, plot,
                   start_button, output_label, messagebox, last_freq, last_amp>>

\* self.last_freq = freq
test_thread_last_freq(i) ==
    /\ workers[i].pc = "last_freq"
    /\ last_freq' = workers[i].freq
    /\ workers' = [workers EXCEPT ![i].pc = "last_amp"]
    /\ UNCHANGED <<variant, sweep, devices, pc, session, events, clock, log_vars, store0, batch_vars, plot,
                   start_button, output_label, messagebox, last_waveform, last_amp>>

\* self.last_amp = amp
test_thread_last_amp(i) ==
    /\ workers[i].pc = "last_amp"
    /\ last_amp' = workers[i].amp
    /\ workers' = [workers EXCEPT ![i].pc = "label"]
    /\ UNCHANGED <<variant, sweep, devices, pc, session, events, clock, log_vars, store0, batch_vars, plot,
                   start_button, output_label, messagebox, last_waveform, last_freq>>

\* self.output_label.config(text=f"Test Complete: Measured Voltage = {voltage} V")
test_thread_label(i) ==
    /\ workers[i].pc = "label"
    /\ output_label' = workers[i].voltage
    /\ workers' = [workers EXCEPT ![i].pc = "enable"]
    /\ UNCHANGED <<variant, sweep, devices, pc, session, events, clock, log_vars, store0, batch_vars, plot,
                   start_button, messagebox, last_waveform, last_freq, last_amp>>

\* self.start_button.config(state="normal"), the thread's last statement
test_thread_enable(i) ==
    /\ workers[i].pc = "enable"
    /\ start_button' = "normal"
    /\ workers' = [workers EXCEPT ![i].pc = "done"]
    /\ UNCHANGED <<variant, sweep, devices, pc, session, events, clock, log_vars, store0, batch_vars, plot,
                   output_label, messagebox, last_waveform, last_freq, last_amp>>

\* plot_waveform, pressed in the main loop: f = self.last_freq
plot_waveform_f ==
    /\ variant = "gui"
    /\ pc = "mainloop"
    /\ plot' = [plot EXCEPT !.f = last_freq]
    /\ pc' = "plot_a"
    /\ UNCHANGED <<variant, sweep, devices, session, events, clock, log_vars, store0, batch_vars,
                   start_button, output_label, messagebox, last_waveform, last_freq, last_amp,
                   workers>>

\* a = self.last_amp / 2 (the amplitude read is kept, the peak is half of it)
plot_waveform_a ==
    /\ pc = "plot_a"
    /\ plot' = [plot EXCEPT !.a = last_amp]
    /\ pc' = "plot_waveform"
    /\ UNCHANGED <<variant, sweep, devices, session, events, clock, log_vars, store0, batch_vars,
                   start_button, output_label, messagebox, last_waveform, last_freq, last_amp,
                   workers>>

\* waveform = self.last_waveform
plot_waveform_waveform ==
    /\ pc = "plot_waveform"
    /\ plot' = [plot EXCEPT !.waveform = last_waveform]
    /\ pc' = "plot_show"
    /\ UNCHANGED <<variant, sweep, devices, session, events, clock, log_vars, store0, batch_vars,
                   start_button, output_label, messagebox, last_waveform, last_freq, last_amp,
                   workers>>

\* the samples are computed from f, a and waveform, plt.show(), and plot_waveform returns
plot_waveform_show ==
    /\ pc = "plot_show"
    /\ plot' = NoPlot
    /\ pc' = "mainloop"
    /\ UNCHANGED <<variant, sweep, devices, session, events, clock, log_vars, store0, batch_vars,
                   start_button, output_label, messagebox, last_waveform, last_freq, last_amp,
                   workers>>

\* one step of thread i
WorkerNext(i) ==
    \/ run_test_func(i)
    \/ run_test_freq(i)
    \/ run_test_volt(i)
    \/ run_test_sleep(i)
    \/ run_test_query(i)
    \/ run_test_log(i)
    \/ test_thread_last_waveform(i)
    \/ test_thread_last_freq(i)
    \/ test_thread_last_amp(i)
    \/ test_thread_label(i)
    \/ test_thread_enable(i)

GuiNext ==
    \/ init_log
    \/ SignalTestApp_init
    \/ \E form \in Forms : start_test(form.waveform, form.freq, form.amp)
    \/ dismiss_messagebox
    \/ plot_waveform_f
    \/ plot_waveform_a
    \/ plot_waveform_waveform
    \/ plot_waveform_show
    \/ \E i \in 1..Len(workers) : WorkerNext(i)

----------------------------------------------------------------------------
(* What the claims observe *)

\* the rows appended since the program started, and the data rows among them
NewRows == SubSeq(log_rows, Len(store0.rows) + 1, Len(log_rows))
DataRows == SelectSeq(NewRows, IsData)

Config(r) == <<r.waveform, r.freq, r.amp>>
Configs(rows) == [k \in 1..Len(rows) |-> Config(rows[k])]

IsFunc(e) == e.cmd = "FUNC"
IsMeas(e) == e.cmd = "MEAS:VOLT:DC?"
IsAppend(e) == e.cmd = "append"
IsFailedWrite(e) == e.cmd \in {"FUNC", "FREQ", "VOLT"} /\ ~e.ok

\* the measurement queries issued so far, in order
Queries == SelectSeq(events, IsMeas)

\* the Parameter Space: waveform list x frequency range with fixed step x amplitude list
SpaceFreqs == [k \in 1..((stop_freq - start_freq) \div step_freq + 1) |->
                  start_freq + (k - 1) * step_freq]
NWave == Len(waveform_types)
NFreq == Len(SpaceFreqs)
NAmp == Len(amplitudes)

\* its enumeration in lexicographic order: waveform outermost, amplitude innermost
Enumeration ==
    [k \in 1..(NWave * NFreq * NAmp) |->
        << waveform_types[(k - 1) \div (NFreq * NAmp) + 1],
           SpaceFreqs[(((k - 1) \div NAmp) % NFreq) + 1],
           amplitudes[((k - 1) % NAmp) + 1] >>]

SweepCompleted == variant = "batch" /\ pc \in {"plot", "done"}

\* C1: a completed sweep in which every write and every query succeeded has
\* logged exactly the enumeration of the Parameter Space, waveform outermost,
\* frequency in the middle, amplitude innermost: N*F*A rows, one per
\* configuration, each with the measured voltage.
C1_SweepLogsEnumeration ==
    (SweepCompleted /\ QueryFaults = 0) =>
        /\ Len(DataRows) = NWave * NFreq * NAmp
        /\ Configs(DataRows) = Enumeration
        /\ \A j, k \in 1..Len(DataRows) : j # k => Config(DataRows[j]) # Config(DataRows[k])
        /\ \A k \in 1..Len(DataRows) : DataRows[k].voltage # NA

C1_Witness ==
    /\ variant = "batch" /\ pc = "done" /\ QueryFaults = 0
    /\ Len(DataRows) = 45
    /\ Config(DataRows[45]) = <<"TRI", 5000, 3>>

\* C2: in the batch sweep the k-th data row carries the sentinel exactly when the
\* k-th measurement query failed, every query gets its one row, a failed query
\* never halts the sweep, a sweep that runs to its end has logged every
\* configuration of the Parameter Space whichever queries failed, and a sweep that
\* has neither halted nor ended always has a next step.
C2_FailedQueryLoggedAndSweepGoesOn ==
    variant = "batch" =>
        LET d == DataRows
            q == Queries
        IN  /\ Len(d) \in {Len(q), Len(q) - 1}
            /\ Len(d) = Len(q) - 1 =>
                  (pc = "log" \/ (pc = "halted" /\ IsAppend(events[Len(events)])))
            /\ \A k \in 1..Len(d) : (d[k].voltage = NA) <=> ~q[k].ok
            /\ pc = "halted" => ~IsMeas(events[Len(events)])
            /\ SweepCompleted => Configs(d) = Enumeration
            /\ pc \notin {"exit", "halted", "done"} =>
                  ENABLED (list_resources \/ open_resource \/ query_idn \/ BatchNext)

C2_Witness ==
    /\ variant = "batch" /\ pc = "done"
    /\ DataRows[7].voltage = NA
    /\ Len(DataRows) = 45

\* C3: once the log store holds a data row, its first row is the header and it
\* holds the header exactly once, whether the store did not exist, was empty or
\* was left by an earlier run when the program started.
C3_HeaderOnceAndFirst ==
    (\E k \in 1..Len(log_rows) : IsData(log_rows[k])) =>
        /\ IsHeader(log_rows[1])
        /\ Cardinality({k \in 1..Len(log_rows) : IsHeader(log_rows[k])}) = 1

\* the form is numeric, the frequency in [10, 1000000] Hz, the amplitude in [0.1, 10] Vpp
Acceptable(form) ==
    /\ form.freq.numeric /\ form.amp.numeric
    /\ 10 <= form.freq.value /\ form.freq.value <= 1000000
    /\ 1 <= form.amp.value /\ form.amp.value <= 100

\* C4: a press of Start Test with a form that is not numeric, or whose frequency
\* or amplitude is out of range, issues no instrument command, appends no log
\* row, starts no worker and leaves the button enabled.
C4_InvalidInputRejected ==
    [][\A form \in Forms :
          (~Acceptable(form) /\ start_test(form.waveform, form.freq, form.amp)) =>
              /\ UNCHANGED <<events, log_exists, log_rows, workers, session>>
              /\ start_button' = "normal"
              /\ pc' = "messagebox"]_vars

C4_Witness ==
    /\ pc = "messagebox" /\ messagebox = "Frequency Out of Range"
    /\ Len(workers) = 1 /\ workers[1].pc = "done"

\* positions of a worker after its row is in the log
Logged == {"last_waveform", "last_freq", "last_amp", "label", "enable", "done"}
\* positions of a worker that has ended
Ended == {"done", "dead"}

InFlight == {i \in 1..Len(workers) : workers[i].pc \notin Ended}

\* C5: the bounds 10 Hz, 1 MHz, 0.1 Vpp and 10 Vpp are accepted, and the k-th
\* worker, once past its log append, has added exactly one row, the k-th data
\* row, carrying the waveform, frequency and amplitude of the form, with the
\* sentinel when a write or the query failed.
C5_AcceptedTrialLogsOneRow ==
    variant = "gui" =>
        /\ \A f \in {10, 1000, 1000000}, a \in {1, 10, 100} :
              validate_inputs(Number(f), Number(a)) = ""
        /\ Len(DataRows) = Cardinality({i \in 1..Len(workers) : workers[i].pc \in Logged})
        /\ \A i \in 1..Len(workers) :
              workers[i].pc \in Logged =>
                  /\ Config(DataRows[i]) = <<workers[i].waveform, workers[i].freq, workers[i].amp>>
                  /\ DataRows[i].voltage = workers[i].voltage

C5_Witness ==
    /\ Len(workers) = 2
    /\ workers[1].pc = "done" /\ workers[1].freq = 10 /\ workers[1].amp = 1
    /\ workers[1].voltage = NA
    /\ workers[2].pc = "done" /\ workers[2].freq = 1000000 /\ workers[2].amp = 100
    /\ Len(DataRows) = 2

\* C6: at most one worker is in flight, and while one is the button is disabled.
C6_OneWorkerInFlight ==
    /\ Cardinality(InFlight) <= 1
    /\ InFlight # {} => start_button = "disabled"

C6_Witness ==
    /\ Len(workers) = 2
    /\ workers[1].pc = "done"
    /\ workers[2].pc = "query"
    /\ start_button = "disabled"

\* C7: when no started trial is in flight any more, every one of them has run to
\* completion and the button is enabled again: the button is disabled only
\* while a worker is still on its way to re-enable it.
C7_TrialCompletesAndButtonReenabled ==
    (start_button # "unbuilt" /\ InFlight = {}) =>
        /\ \A i \in 1..Len(workers) : workers[i].pc = "done"
        /\ start_button = "normal"

\* how many trials have begun among the first j events
TrialsBegun(j) == Cardinality({i \in 1..j : IsFunc(events[i])})

\* C8: nothing follows a failed FUNC/FREQ/VOLT write in its trial but, in the
\* interactive program, the log append.  In the batch sweep the failed write is
\* the last event of the run: the program has halted and the log holds exactly
\* the rows of the trials before it, a prefix of the enumeration.  In the
\* interactive program no measurement query is issued for the trial and its one
\* row carries the sentinel.
C8_FailedWrite ==
    /\ variant = "batch" =>
          /\ Len(events) >= 2 => ~IsFailedWrite(events[Len(events) - 1])
          /\ (events # <<>> /\ IsFailedWrite(events[Len(events)])) =>
                LET d == DataRows
                    n == TrialsBegun(Len(events))
                IN  /\ pc = "halted"
                    /\ Len(d) = n - 1
                    /\ Configs(d) = SubSeq(Enumeration, 1, n - 1)
    /\ variant = "gui" =>
          /\ Len(DataRows) = Len(SelectSeq(events, LAMBDA e : IsAppend(e) /\ e.ok))
          /\ \A j \in 1..Len(events) :
                IsFailedWrite(events[j]) =>
                    LET k == TrialsBegun(j)
                    IN  /\ workers[k].voltage = NA
                        /\ j = Len(events) => workers[k].pc = "log"
                        /\ j < Len(events) => IsAppend(events[j + 1])
                        /\ (j < Len(events) /\ events[j + 1].ok) =>
                              /\ DataRows[k].voltage = NA
                              /\ Config(DataRows[k]) =
                                    <<workers[k].waveform, workers[k].freq, workers[k].amp>>

C8_Witness ==
    /\ variant = "batch" /\ pc = "halted"
    /\ events[Len(events)].cmd = "VOLT" /\ ~events[Len(events)].ok
    /\ Len(DataRows) = 4

\* C9: with no device discovered no session is opened, nothing is sent to the
\* instrument, the log store is as it was found, and the interactive program
\* never builds its window.
C9_NoDeviceNoEffect ==
    devices = <<>> =>
        /\ session = "closed"
        /\ events = <<>>
        /\ log_exists = store0.exists
        /\ log_rows = store0.rows
        /\ start_button = "unbuilt"
        /\ workers = <<>>
        /\ pc \in {"list", "exit", "fatal"}

C9_Witness == devices = <<>> /\ pc = "fatal" /\ ~store0.exists

\* the frequencies sent for waveform w, in order, a repeated frequency counted once
FreqWrites(w) ==
    SelectSeq([i \in 1..Len(events) |-> i],
              LAMBDA i : /\ events[i].cmd = "FREQ"
                         /\ events[i - 1].cmd = "FUNC" /\ events[i - 1].shape = w)
FreqsVisited(w) ==
    LET idx == FreqWrites(w)
        first == SelectSeq([j \in 1..Len(idx) |-> j],
                           LAMBDA j : j = 1 \/ events[idx[j]].hz # events[idx[j - 1]].hz)
    IN  [j \in 1..Len(first) |-> events[idx[first[j]]].hz]

\* C10: with start = 1000, stop = 5000, step = 1000 a sweep that runs to its end
\* has visited, for each waveform, exactly 1000, 2000, 3000, 4000, 5000.
C10_FrequenciesVisited ==
    SweepCompleted =>
        \A k \in 1..Len(waveform_types) :
            FreqsVisited(waveform_types[k]) = <<1000, 2000, 3000, 4000, 5000>>

C10_Witness ==
    /\ variant = "batch" /\ pc = "done"
    /\ start_freq = 1000 /\ stop_freq = 5000 /\ step_freq = 1000
    /\ FreqsVisited("TRI") = <<1000, 2000, 3000, 4000, 5000>>

\* C11: the log store is append-only.  Every step leaves the rows already in the
\* store where they are and adds at most one row, at the end; a step that logs a
\* trial adds exactly one, the trial's data row; the store, once it exists, is
\* never removed.  (So the store of an earlier state is a prefix of the store of
\* every later state.)
C11_LogAppendOnly ==
    [][/\ Len(log_rows') >= Len(log_rows)
       /\ Len(log_rows') <= Len(log_rows) + 1
       /\ SubSeq(log_rows', 1, Len(log_rows)) = log_rows
       /\ log_exists => log_exists'
       /\ (Len(events') > Len(events) /\ IsAppend(events'[Len(events')])
              /\ events'[Len(events')].ok) =>
             /\ Len(log_rows') = Len(log_rows) + 1
             /\ IsData(log_rows'[Len(log_rows')])
       /\ (Len(log_rows') > Len(log_rows) /\ IsData(log_rows'[Len(log_rows')])) =>
             (Len(events') > Len(events) /\ IsAppend(events'[Len(events')]))]_vars

C11_Witness ==
    /\ variant = "gui"
    /\ store0.rows = <<Header, PriorRow>>
    /\ Len(log_rows) = 4
    /\ SubSeq(log_rows, 1, 2) = store0.rows

\* what may come right after event e: the protocol of a trial
Follows(e, f) ==
    CASE e.cmd = "*IDN?" -> IsFunc(f)
      [] e.cmd = "FUNC" -> IF e.ok THEN f.cmd = "FREQ" ELSE (variant = "gui" /\ IsAppend(f))
      [] e.cmd = "FREQ" -> IF e.ok THEN f.cmd = "VOLT" ELSE (variant = "gui" /\ IsAppend(f))
      [] e.cmd = "VOLT" -> IF e.ok THEN f.cmd = "sleep" ELSE (variant = "gui" /\ IsAppend(f))
      [] e.cmd = "sleep" -> IsMeas(f)
      [] e.cmd = "MEAS:VOLT:DC?" -> IsAppend(f)
      [] e.cmd = "append" -> e.ok /\ IsFunc(f)

\* C12: the events of a run follow the protocol.  After *IDN?, each trial is
\* FUNC, FREQ, VOLT, settle delay, MEAS:VOLT:DC?, log append, each once and in
\* this order (a failed query is followed by the append, not by another query);
\* the first command of a trial comes only after the append of the trial
\* before it; and the three writes of a trial whose writes succeeded carry the
\* shape, frequency and amplitude of the row the trial appends.  Stated of every
\* step: a step adds at most one event, at the end, and that event is one the
\* protocol allows after the last one.
C12_TrialProtocolOrder ==
    [][events' # events =>
          LET n == Len(events)
              e == events'[n + 1]
              r == log_rows'[Len(log_rows')]
          IN  /\ Len(events') = n + 1
              /\ SubSeq(events', 1, n) = events
              /\ IF n = 0 THEN e.cmd = "*IDN?" ELSE Follows(events[n], e)
              /\ (IsAppend(e) /\ e.ok /\ IsMeas(events[n])) =>
                    /\ Len(log_rows') = Len(log_rows) + 1
                    /\ events[n - 1].cmd = "sleep"
                    /\ events[n - 2].cmd = "VOLT" /\ events[n - 2].ok /\ events[n - 2].vpp = r.amp
                    /\ events[n - 3].cmd = "FREQ" /\ events[n - 3].ok /\ events[n - 3].hz = r.freq
                    /\ events[n - 4].cmd = "FUNC" /\ events[n - 4].ok
                    /\ events[n - 4].shape = r.waveform]_vars

C12_Witness ==
    /\ variant = "gui"
    /\ Len(workers) = 2 /\ workers[1].pc = "done" /\ workers[2].pc = "done"
    /\ Len(events) = 13
    /\ IsMeas(events[12]) /\ ~events[12].ok
    /\ IsAppend(events[13]) /\ events[13].ok

\* the triple plot_waveform has read when it computes the samples
PlotTriple == <<plot.waveform, plot.f, plot.a>>

\* the values of self.last_* set by __init__: SIN, 1000 Hz, 1.0 Vpp
DefaultTriple == <<"SIN", 1000, 10>>

\* C13: the triple the plot action has read is the initial default or the triple
\* of one trial that has logged its row; never fields of two different trials
\* (or of a trial and the default) mixed, never a trial that was rejected or has
\* not logged its row yet.
C13_PlotReadsOneTrial ==
    pc = "plot_show" =>
        \/ PlotTriple = DefaultTriple
        \/ \E i \in 1..Len(workers) :
              /\ workers[i].pc \in Logged
              /\ PlotTriple = <<workers[i].waveform, workers[i].freq, workers[i].amp>>

\* C14: for every positive step and every start <= stop, every frequency sent
\* to the instrument and every frequency logged lies in [start, stop], and a
\* sweep that runs to its end has visited stop.
C14_FrequenciesWithinStartStop ==
    variant = "batch" =>
        /\ \A j \in 1..Len(events) :
              events[j].cmd = "FREQ" =>
                  (sweep.start <= events[j].hz /\ events[j].hz <= sweep.stop)
        /\ \A k \in 1..Len(DataRows) :
              sweep.start <= DataRows[k].freq /\ DataRows[k].freq <= sweep.stop
        /\ SweepCompleted =>
              \E j \in 1..Len(events) : events[j].cmd = "FREQ" /\ events[j].hz = sweep.stop

----------------------------------------------------------------------------
Next ==
    \/ list_resources
    \/ open_resource
    \/ query_idn
    \/ BatchNext
    \/ GuiNext

Spec == Init /\ [][Next]_vars

----------------------------------------------------------------------------
(* The batch program with start_freq, stop_freq and step_freq set to other values *)

\* values of the three parameters with step > 0 and start <= stop
SweepInputs ==
    { [start |-> a, stop |-> b, step |-> c] :
          a \in {1000, 2000}, b \in {2000, 2500, 3000}, c \in {500, 1000} }

InitRange ==
    /\ variant = "batch"
    /\ sweep \in SweepInputs
    /\ devices = <<"USB0::0x0957::0x2C07::MY52814912::INSTR">>
    /\ pc = "list"
    /\ session = "closed"
    /\ events = <<>>
    /\ clock = 0
    /\ store0 = [exists |-> FALSE, rows |-> <<>>]
    /\ log_exists = store0.exists
    /\ log_rows = store0.rows
    /\ wi = 1 /\ fi = 1 /\ ai = 1
    /\ voltage = <<>>
    /\ start_button = "unbuilt"
    /\ output_label = <<>>
    /\ messagebox = ""
    /\ last_waveform = ""
    /\ last_freq = 0
    /\ last_amp = 0
    /\ plot = NoPlot
    /\ workers = <<>>

NextRange ==
    \/ list_resources
    \/ open_resource
    \/ query_idn
    \/ BatchNext

SpecRange == InitRange /\ [][NextRange]_vars

====
